---- MODULE Spec2Model ----
(***************************************************************************)
(* Model of the Gitea provider's client wrapper (giteaClientImpl) and its  *)
(* pull-request client: paginated list accessors driven by allPages,       *)
(* single-call accessors, error translation and object validation.         *)
(*                                                                         *)
(* Every accessor invocation runs in a call slot c.  An accessor that      *)
(* makes one transport call is one atomic action; a paginated accessor     *)
(* takes one step per page fetch (the points where it blocks on the        *)
(* network), the step of the last fetch also doing the validation and the  *)
(* return.                                                                 *)
(***************************************************************************)
EXTENDS Naturals, Sequences, FiniteSets

\* ------------------------------------------------------------------ bounds

\* Page fetches a single paginated call may make in the model (the code has
\* no such limit; a call that reaches it simply stays in its loop).
MaxPages == 2
\* Longest page the remote returns when one call runs alone.
MaxPageLen == 2
\* Longest page the remote returns when two calls run concurrently.
ConcPageLen == 1
\* Stack frames GetRepoTeams may push before the runtime aborts the program.
MaxDepth == 2

Calls == {1, 2}

VARIABLES
    destructiveActions, \* giteaClientImpl.destructiveActions
    pc,                 \* per call: "ready" | "paging" | "members" | "recursing" | "fatal"
    op,                 \* per call: the accessor last invoked ("none" before any)
    arg,                \* per call: orgName (CreateRepo) or teamName (ListOrgTeamMembers)
    page,               \* per frame: opts.Page of a paginated accessor
    apiObjs,            \* per frame: the accumulator of a paginated accessor
    depth,              \* per call: nesting of GetRepoTeams frames
    sent,               \* per call: the transport requests this invocation issued
    own,                \* per call: items the transport handed to this invocation
    lastResp,           \* per call: summary of the last transport response
    result,             \* per call: the value returned
    err                 \* per call: the error returned

vars == <<destructiveActions, pc, op, arg, page, apiObjs, depth, sent, own,
          lastResp, result, err>>

\* ------------------------------------------------------------------ values

NoErr == [kind |-> "nil", text |-> ""]
\* The error value the transport returns for a failed request.
RemoteErr == [kind |-> "remote", text |-> "request failed"]
ErrNotFound == [kind |-> "ErrNotFound", text |-> ""]
ErrDestructiveCallDisallowed == [kind |-> "ErrDestructiveCallDisallowed", text |-> ""]
ValidationErr == [kind |-> "ValidationError", text |-> ""]

NilResult == [isNil |-> TRUE, items |-> <<>>]
Some(s) == [isNil |-> FALSE, items |-> s]

NoResp == [empty |-> TRUE, resp |-> "none", err |-> NoErr]

Object(id, name) == [ID |-> id, Name |-> name]

SeqsUpTo(S, n) == UNION {[1..k -> S] : k \in 0..n}

\* ------------------------------------------------------- remote transport

\* What one request to the remote can come back with: the payload, the
\* response metadata ("nil" when no response was received) and the error.
\* A request either succeeds (a 200 response, no error), fails before any
\* payload is read (no response, or a failing status; no payload), or fails
\* while its 200 response is decoded (whatever was decoded so far is kept).
FailedMetas == {"nil", "404", "500"}

PageResponses(objs, maxLen) ==
    {[items |-> p, resp |-> "200", err |-> NoErr] : p \in SeqsUpTo(objs, maxLen)}
        \cup {[items |-> <<>>, resp |-> s, err |-> RemoteErr] : s \in FailedMetas}
        \cup {[items |-> p, resp |-> "200", err |-> RemoteErr] : p \in SeqsUpTo(objs, maxLen)}

\* A single-object request: the object on success, nothing on failure.
ObjectResponses(objs) ==
    {[items |-> <<o>>, resp |-> "200", err |-> NoErr] : o \in objs}
        \cup {[items |-> <<>>, resp |-> s, err |-> RemoteErr] : s \in FailedMetas}

\* A request that returns no payload (delete, add, remove).
StatusResponses ==
    {[items |-> <<>>, resp |-> "200", err |-> NoErr]}
        \cup {[items |-> <<>>, resp |-> s, err |-> RemoteErr] : s \in FailedMetas}

Summary(r) == [empty |-> Len(r.items) = 0, resp |-> r.resp, err |-> r.err]

\* The objects the remote holds, per accessor.  An object with an empty
\* Name lacks a required field.
Orgs == {Object(1, "org"), Object(2, "")}
Repos == {Object(1, "repo"), Object(2, "")}
Keys == {Object(1, "key"), Object(2, "")}
Teams == {Object(1, "A"), Object(2, "A")}
Users == {Object(1, "user")}
Commits == {Object(1, "commit")}
PullRequests == {Object(1, "pr")}
TeamNames == {"A", "C"}
OrgNames == {"", "org"}

ObjectsOf(kind) ==
    CASE kind = "ListOrgs" -> Orgs
      [] kind \in {"ListOrgRepos", "ListUserRepos"} -> Repos
      [] kind = "ListKeys" -> Keys
      [] OTHER -> Teams

\* ---------------------------------------------- translation and validation

\* Error Translator: nil stays nil, a 404 response becomes ErrNotFound, any
\* other failure is wrapped with the original text kept.
handleHTTPError(res, e) ==
    IF e = NoErr THEN NoErr
    ELSE IF res = "404" THEN ErrNotFound
    ELSE [kind |-> "wrapped", text |-> e.text]

\* Validation contracts: the required field is populated.
validateOrganizationAPI(o) == o.Name # ""
validateRepositoryAPI(o) == o.Name # ""
validateDeployKeyAPI(o) == o.Name # ""

validateRepositoryAPIResp(r) ==
    IF r.err # NoErr THEN [result |-> NilResult, err |-> handleHTTPError(r.resp, r.err)]
    ELSE IF ~validateRepositoryAPI(r.items[1]) THEN [result |-> NilResult, err |-> ValidationErr]
    ELSE [result |-> Some(r.items), err |-> NoErr]

validateRepositoryObjects(objs) ==
    IF \A i \in 1..Len(objs) : validateRepositoryAPI(objs[i])
    THEN [result |-> Some(objs), err |-> NoErr]
    ELSE [result |-> NilResult, err |-> ValidationErr]

\* --------------------------------------------------------------- pagination

ListOps == {"ListOrgs", "ListOrgTeams", "ListOrgRepos", "ListUserRepos", "ListKeys"}
PagedOps == ListOps \cup {"ListOrgTeamMembers"}

Endpoint(kind) ==
    CASE kind = "ListOrgs" -> "GET /user/orgs"
      [] kind = "ListOrgRepos" -> "GET /orgs/{org}/repos"
      [] kind = "ListUserRepos" -> "GET /users/{username}/repos"
      [] kind = "ListKeys" -> "GET /repos/{owner}/{repo}/keys"
      [] OTHER -> "GET /orgs/{org}/teams"

\* Frame as it would be if opts and apiObjs were fields of the client.
SharedFrame(c) == 1

\* The frame holding an invocation's locals (opts, apiObjs).
Frame(c) == c

\* PageCallback assigning the page to the accumulator instead of appending.
PageCallbackOverwrite(acc, r) ==
    IF Len(r.items) > 0
    THEN [acc |-> r.items, resp |-> r.resp, err |-> r.err]
    ELSE [acc |-> acc, resp |-> "nil", err |-> NoErr]

\* PageCallback without the empty-page stop: it always hands back what the
\* transport returned.
PageCallbackNoStop(acc, r) ==
    [acc |-> acc \o r.items, resp |-> r.resp, err |-> r.err]

\* The page callback of a list accessor: a non-empty page is appended and the
\* transport's metadata and error are handed back; an empty page hands back
\* (nil, nil).
PageCallback(acc, r) ==
    IF Len(r.items) > 0
    THEN [acc |-> acc \o r.items, resp |-> r.resp, err |-> r.err]
    ELSE [acc |-> acc, resp |-> "nil", err |-> NoErr]

\* allPages, one iteration: the error of the callback stops the loop and is
\* translated; (nil, nil) stops it successfully; otherwise the page advances.
allPagesStops(cb) == cb.err # NoErr \/ cb.resp = "nil"
allPagesErr(cb) == handleHTTPError(cb.resp, cb.err)

IsValid(o) == o.Name # ""

\* ListReturn dropping the invalid objects instead of failing the call.
ListReturnSkipInvalid(kind, acc, perr) ==
    IF perr # NoErr THEN [result |-> NilResult, err |-> perr]
    ELSE [result |-> Some(SelectSeq(acc, IsValid)), err |-> NoErr]

\* What a list accessor returns once allPages has returned perr.
ListReturn(kind, acc, perr) ==
    IF perr # NoErr THEN [result |-> NilResult, err |-> perr]
    ELSE CASE kind = "ListOrgs" ->
                 IF \A i \in 1..Len(acc) : validateOrganizationAPI(acc[i])
                 THEN [result |-> Some(acc), err |-> NoErr]
                 ELSE [result |-> NilResult, err |-> ValidationErr]
           [] kind \in {"ListOrgRepos", "ListUserRepos"} -> validateRepositoryObjects(acc)
           [] kind = "ListKeys" ->
                 IF \A i \in 1..Len(acc) : validateDeployKeyAPI(acc[i])
                 THEN [result |-> Some(acc), err |-> NoErr]
                 ELSE [result |-> NilResult, err |-> ValidationErr]
           [] OTHER -> [result |-> Some(acc), err |-> NoErr]

\* FirstMatch keeping the last team of that name instead of the first.
LastMatch(teams, teamName) ==
    IF \E i \in 1..Len(teams) : teams[i].Name = teamName
    THEN CHOOSE i \in 1..Len(teams) :
            /\ teams[i].Name = teamName
            /\ \A j \in (i + 1)..Len(teams) : teams[j].Name # teamName
    ELSE 0

\* ListOrgTeamMembers' scan: the index of the first team named teamName, 0
\* when there is none.
FirstMatch(teams, teamName) ==
    IF \E i \in 1..Len(teams) : teams[i].Name = teamName
    THEN CHOOSE i \in 1..Len(teams) :
            /\ teams[i].Name = teamName
            /\ \A j \in 1..(i - 1) : teams[j].Name # teamName
    ELSE 0

\* -------------------------------------------------- single-call accessors

Request(ep, n) == [ep |-> ep, n |-> n]

\* What an invocation leaves behind: the requests it issued, the summary of
\* the last response, the value and the error it returned.
Out(ep, r, res, e) ==
    [sent |-> <<Request(ep, 0)>>, last |-> Summary(r), result |-> res, err |-> e]

GetOrgOut(r) ==
    IF r.err # NoErr
    THEN Out("GET /orgs/{org}", r, NilResult, handleHTTPError(r.resp, r.err))
    ELSE IF ~validateOrganizationAPI(r.items[1])
    THEN Out("GET /orgs/{org}", r, NilResult, ValidationErr)
    ELSE Out("GET /orgs/{org}", r, Some(r.items), NoErr)

GetRepoOut(r) ==
    LET v == validateRepositoryAPIResp(r)
    IN Out("GET /repos/{owner}/{repo}", r, v.result, v.err)

\* CreateRepoEndpoint ignoring the organization.
CreateRepoEndpointUser(orgName) == "POST /user/repos"

CreateRepoEndpoint(orgName) ==
    IF orgName # "" THEN "POST /orgs/{org}/repos" ELSE "POST /user/repos"

CreateRepoOut(orgName, r) ==
    LET v == validateRepositoryAPIResp(r)
    IN Out(CreateRepoEndpoint(orgName), r, v.result, v.err)

UpdateRepoOut(r) ==
    LET v == validateRepositoryAPIResp(r)
    IN Out("PATCH /repos/{owner}/{repo}", r, v.result, v.err)

\* DeleteRepoOut without the destructiveActions gate.
DeleteRepoOutUngated(allowed, r) ==
    Out("DELETE /repos/{owner}/{repo}", r, NilResult, handleHTTPError(r.resp, r.err))

DeleteRepoOut(allowed, r) ==
    IF ~allowed
    THEN [sent |-> <<>>, last |-> NoResp, result |-> NilResult,
          err |-> [kind |-> ErrDestructiveCallDisallowed.kind,
                   text |-> "cannot delete repository"]]
    ELSE Out("DELETE /repos/{owner}/{repo}", r, NilResult, handleHTTPError(r.resp, r.err))

ListCommitsPageOut(r) ==
    IF r.err # NoErr
    THEN Out("GET /repos/{owner}/{repo}/git/commits", r, NilResult, r.err)
    ELSE Out("GET /repos/{owner}/{repo}/git/commits", r, Some(r.items), NoErr)

CreateKeyOut(r) ==
    IF r.err # NoErr
    THEN Out("POST /repos/{owner}/{repo}/keys", r, NilResult, handleHTTPError(r.resp, r.err))
    ELSE IF ~validateDeployKeyAPI(r.items[1])
    THEN Out("POST /repos/{owner}/{repo}/keys", r, NilResult, ValidationErr)
    ELSE Out("POST /repos/{owner}/{repo}/keys", r, Some(r.items), NoErr)

DeleteKeyOut(r) ==
    Out("DELETE /repos/{owner}/{repo}/keys/{key_id}", r, NilResult,
        handleHTTPError(r.resp, r.err))

GetTeamPermissionsOut(r) ==
    IF r.err # NoErr
    THEN Out("GET /repos/{owner}/{repo}/teams/{team_slug}", r, NilResult,
             handleHTTPError(r.resp, r.err))
    ELSE Out("GET /repos/{owner}/{repo}/teams/{team_slug}", r, Some(r.items), NoErr)

AddTeamOut(r) ==
    Out("PUT /repos/{owner}/{repo}/teams/{team_slug}", r, NilResult,
        handleHTTPError(r.resp, r.err))

RemoveTeamOut(r) ==
    Out("DELETE /repos/{owner}/{repo}/teams/{team_slug}", r, NilResult,
        handleHTTPError(r.resp, r.err))

PullRequestListOut(r) ==
    IF r.err # NoErr
    THEN Out("GET /repos/{owner}/{repo}/pulls", r, NilResult, r.err)
    ELSE Out("GET /repos/{owner}/{repo}/pulls", r, Some(r.items), NoErr)

PullRequestCreateOut(r) ==
    IF r.err # NoErr
    THEN Out("POST /repos/{owner}/{repo}/pulls", r, NilResult, r.err)
    ELSE Out("POST /repos/{owner}/{repo}/pulls", r, Some(r.items), NoErr)

PullRequestGetOut(r) ==
    IF r.err # NoErr
    THEN Out("GET /repos/{owner}/{repo}/pulls/{index}", r, NilResult, r.err)
    ELSE Out("GET /repos/{owner}/{repo}/pulls/{index}", r, Some(r.items), NoErr)

PullRequestMergeOut(r) ==
    Out("POST /repos/{owner}/{repo}/pulls/{index}/merge", r, NilResult, r.err)

\* ListOrgTeamMembers' call for the members of the matched team.
TeamMembersOut(r) ==
    IF r.err # NoErr
    THEN [result |-> NilResult,
          err |-> [kind |-> r.err.kind,
                   text |-> "failed to list team members: " \o r.err.text]]
    ELSE [result |-> Some(r.items), err |-> NoErr]

\* ------------------------------------------------------------------ actions

Init ==
    /\ destructiveActions \in BOOLEAN
    /\ pc = [c \in Calls |-> "ready"]
    /\ op = [c \in Calls |-> "none"]
    /\ arg = [c \in Calls |-> ""]
    /\ page = [c \in Calls |-> 0]
    /\ apiObjs = [c \in Calls |-> <<>>]
    /\ depth = [c \in Calls |-> 0]
    /\ sent = [c \in Calls |-> <<>>]
    /\ own = [c \in Calls |-> <<>>]
    /\ lastResp = [c \in Calls |-> NoResp]
    /\ result = [c \in Calls |-> NilResult]
    /\ err = [c \in Calls |-> NoErr]

\* An accessor that returns in one step: name is the accessor, a its
\* argument, out what it leaves behind.
Return(c, name, a, out) ==
    /\ pc[c] = "ready"
    /\ op' = [op EXCEPT ![c] = name]
    /\ arg' = [arg EXCEPT ![c] = a]
    /\ sent' = [sent EXCEPT ![c] = out.sent]
    /\ own' = [own EXCEPT ![c] = <<>>]
    /\ lastResp' = [lastResp EXCEPT ![c] = out.last]
    /\ result' = [result EXCEPT ![c] = out.result]
    /\ err' = [err EXCEPT ![c] = out.err]
    /\ UNCHANGED <<destructiveActions, pc, page, apiObjs, depth>>

GetOrg(c) == \E r \in ObjectResponses(Orgs) : Return(c, "GetOrg", "", GetOrgOut(r))
GetRepo(c) == \E r \in ObjectResponses(Repos) : Return(c, "GetRepo", "", GetRepoOut(r))
CreateRepo(c) ==
    \E orgName \in OrgNames, r \in ObjectResponses(Repos) :
        Return(c, "CreateRepo", orgName, CreateRepoOut(orgName, r))
UpdateRepo(c) == \E r \in ObjectResponses(Repos) : Return(c, "UpdateRepo", "", UpdateRepoOut(r))
DeleteRepo(c) ==
    \E r \in StatusResponses : Return(c, "DeleteRepo", "", DeleteRepoOut(destructiveActions, r))
ListCommitsPage(c) ==
    \E r \in PageResponses(Commits, MaxPageLen) :
        Return(c, "ListCommitsPage", "", ListCommitsPageOut(r))
CreateKey(c) == \E r \in ObjectResponses(Keys) : Return(c, "CreateKey", "", CreateKeyOut(r))
DeleteKey(c) == \E r \in StatusResponses : Return(c, "DeleteKey", "", DeleteKeyOut(r))
GetTeamPermissions(c) ==
    \E r \in ObjectResponses(Teams) :
        Return(c, "GetTeamPermissions", "", GetTeamPermissionsOut(r))
AddTeam(c) == \E r \in StatusResponses : Return(c, "AddTeam", "", AddTeamOut(r))
RemoveTeam(c) == \E r \in StatusResponses : Return(c, "RemoveTeam", "", RemoveTeamOut(r))
PullRequestList(c) ==
    \E r \in PageResponses(PullRequests, MaxPageLen) :
        Return(c, "PullRequestList", "", PullRequestListOut(r))
PullRequestCreate(c) ==
    \E r \in ObjectResponses(PullRequests) :
        Return(c, "PullRequestCreate", "", PullRequestCreateOut(r))
PullRequestGet(c) ==
    \E r \in ObjectResponses(PullRequests) :
        Return(c, "PullRequestGet", "", PullRequestGetOut(r))
PullRequestMerge(c) ==
    \E r \in StatusResponses : Return(c, "PullRequestMerge", "", PullRequestMergeOut(r))

\* GetRepoTeams calls itself with its own arguments: every call pushes a
\* frame, none issues a request, and the runtime ends the program when the
\* stack is exhausted.
GetRepoTeams(c) ==
    /\ pc[c] = "ready"
    /\ pc' = [pc EXCEPT ![c] = "recursing"]
    /\ op' = [op EXCEPT ![c] = "GetRepoTeams"]
    /\ arg' = [arg EXCEPT ![c] = ""]
    /\ depth' = [depth EXCEPT ![c] = 1]
    /\ sent' = [sent EXCEPT ![c] = <<>>]
    /\ own' = [own EXCEPT ![c] = <<>>]
    /\ lastResp' = [lastResp EXCEPT ![c] = NoResp]
    /\ result' = [result EXCEPT ![c] = NilResult]
    /\ err' = [err EXCEPT ![c] = NoErr]
    /\ UNCHANGED <<destructiveActions, page, apiObjs>>

GetRepoTeamsRecurse(c) ==
    /\ pc[c] = "recursing"
    /\ depth[c] < MaxDepth
    /\ depth' = [depth EXCEPT ![c] = @ + 1]
    /\ UNCHANGED <<destructiveActions, pc, op, arg, page, apiObjs, sent, own,
                   lastResp, result, err>>

StackOverflow(c) ==
    /\ pc[c] = "recursing"
    /\ depth[c] = MaxDepth
    /\ pc' = [d \in Calls |-> "fatal"]
    /\ UNCHANGED <<destructiveActions, op, arg, page, apiObjs, depth, sent, own,
                   lastResp, result, err>>

\* A paginated accessor starts: fresh options and accumulator, and allPages
\* sets the page to 1.
StartList(c, kind, a) ==
    /\ pc[c] = "ready"
    /\ pc' = [pc EXCEPT ![c] = "paging"]
    /\ op' = [op EXCEPT ![c] = kind]
    /\ arg' = [arg EXCEPT ![c] = a]
    /\ page' = [page EXCEPT ![Frame(c)] = 1]
    /\ apiObjs' = [apiObjs EXCEPT ![Frame(c)] = <<>>]
    /\ sent' = [sent EXCEPT ![c] = <<>>]
    /\ own' = [own EXCEPT ![c] = <<>>]
    /\ lastResp' = [lastResp EXCEPT ![c] = NoResp]
    /\ result' = [result EXCEPT ![c] = NilResult]
    /\ err' = [err EXCEPT ![c] = NoErr]
    /\ UNCHANGED <<destructiveActions, depth>>

\* One iteration of allPages: the request for the current page, the callback
\* and the loop's decision; when the loop ends, the accessor's validation and
\* return (for ListOrgTeamMembers, the scan for the team).
Fetch(c, r) ==
    /\ pc[c] = "paging"
    /\ page[Frame(c)] <= MaxPages
    /\ LET f == Frame(c)
           cb == PageCallback(apiObjs[f], r)
           perr == allPagesErr(cb)
           ret == ListReturn(op[c], cb.acc, perr)
           m == FirstMatch(cb.acc, arg[c])
       IN /\ sent' = [sent EXCEPT ![c] = Append(@, Request(Endpoint(op[c]), page[f]))]
          /\ own' = [own EXCEPT ![c] = @ \o r.items]
          /\ lastResp' = [lastResp EXCEPT ![c] = Summary(r)]
          /\ IF ~allPagesStops(cb)
             THEN /\ page' = [page EXCEPT ![f] = @ + 1]
                  /\ apiObjs' = [apiObjs EXCEPT ![f] = cb.acc]
                  /\ UNCHANGED <<pc, result, err>>
             ELSE IF op[c] \in ListOps
             THEN /\ pc' = [pc EXCEPT ![c] = "ready"]
                  /\ result' = [result EXCEPT ![c] = ret.result]
                  /\ err' = [err EXCEPT ![c] = ret.err]
                  /\ page' = [page EXCEPT ![f] = 0]
                  /\ apiObjs' = [apiObjs EXCEPT ![f] = <<>>]
             ELSE IF perr # NoErr \/ m = 0
             THEN /\ pc' = [pc EXCEPT ![c] = "ready"]
                  /\ result' = [result EXCEPT ![c] = NilResult]
                  /\ err' = [err EXCEPT ![c] = IF perr # NoErr THEN perr ELSE ErrNotFound]
                  /\ page' = [page EXCEPT ![f] = 0]
                  /\ apiObjs' = [apiObjs EXCEPT ![f] = <<>>]
             ELSE /\ pc' = [pc EXCEPT ![c] = "members"]
                  /\ apiObjs' = [apiObjs EXCEPT ![f] = cb.acc]
                  /\ page' = [page EXCEPT ![f] = 0]
                  /\ UNCHANGED <<result, err>>
    /\ UNCHANGED <<destructiveActions, op, arg, depth>>

FetchPage(c) == \E r \in PageResponses(ObjectsOf(op[c]), MaxPageLen) : Fetch(c, r)

\* ListOrgTeamMembers, after the teams are listed and a team matched: the
\* request for that team's members, and the return.
ListTeamMembers(c) ==
    /\ pc[c] = "members"
    /\ \E r \in PageResponses(Users, MaxPageLen) :
        LET f == Frame(c)
            team == apiObjs[f][FirstMatch(apiObjs[f], arg[c])]
            out == TeamMembersOut(r)
        IN /\ sent' = [sent EXCEPT ![c] = Append(@, Request("GET /teams/{id}/members", team.ID))]
           /\ lastResp' = [lastResp EXCEPT ![c] = Summary(r)]
           /\ result' = [result EXCEPT ![c] = out.result]
           /\ err' = [err EXCEPT ![c] = out.err]
           /\ apiObjs' = [apiObjs EXCEPT ![f] = <<>>]
           /\ pc' = [pc EXCEPT ![c] = "ready"]
    /\ UNCHANGED <<destructiveActions, op, arg, page, depth, own>>

ListOrgs(c) == StartList(c, "ListOrgs", "")
ListOrgTeams(c) == StartList(c, "ListOrgTeams", "")
ListOrgRepos(c) == StartList(c, "ListOrgRepos", "")
ListUserRepos(c) == StartList(c, "ListUserRepos", "")
ListKeys(c) == StartList(c, "ListKeys", "")
ListOrgTeamMembers(c) == \E teamName \in TeamNames : StartList(c, "ListOrgTeamMembers", teamName)

\* One caller: accessor calls follow one another.
Next ==
    \E c \in {1} :
        \/ GetOrg(c) \/ GetRepo(c) \/ CreateRepo(c) \/ UpdateRepo(c) \/ DeleteRepo(c)
        \/ ListCommitsPage(c) \/ CreateKey(c) \/ DeleteKey(c) \/ GetTeamPermissions(c)
        \/ AddTeam(c) \/ RemoveTeam(c)
        \/ PullRequestList(c) \/ PullRequestCreate(c) \/ PullRequestGet(c)
        \/ PullRequestMerge(c)
        \/ GetRepoTeams(c) \/ GetRepoTeamsRecurse(c) \/ StackOverflow(c)
        \/ ListOrgs(c) \/ ListOrgTeams(c) \/ ListOrgRepos(c) \/ ListUserRepos(c)
        \/ ListKeys(c) \/ ListOrgTeamMembers(c)
        \/ FetchPage(c) \/ ListTeamMembers(c)

Spec == Init /\ [][Next]_vars

\* Two callers on the same client, their page fetches interleaved.
ConcOps == {"ListOrgs", "ListKeys"}

ConcStart(c) == \E kind \in ConcOps : StartList(c, kind, "")
ConcObjectsOf(kind) == {o \in ObjectsOf(kind) : o.Name # ""}
ConcFetch(c) == \E r \in PageResponses(ConcObjectsOf(op[c]), ConcPageLen) : Fetch(c, r)

ConcNext == \E c \in Calls : ConcStart(c) \/ ConcFetch(c)

ConcSpec == Init /\ [][ConcNext]_vars

\* ------------------------------------------------------------------ claims

\* The error allPages hands to the accessor, as the last response decides it:
\* the callback reports the transport's error only with a non-empty page.
Propagated(last) ==
    IF ~last.empty /\ last.err # NoErr THEN handleHTTPError(last.resp, last.err) ELSE NoErr

HasInvalid(objs) == \E i \in 1..Len(objs) : objs[i].Name = ""

IsMembersRequest(q) == q.ep = "GET /teams/{id}/members"
MembersRequests(c) == SelectSeq(sent[c], IsMembersRequest)

\* C1: when a page fetch of a list accessor returns an error, the accessor
\* makes no further fetch and returns the translated, non-nil error of that
\* failure (and no result).
C1_FetchErrorReturned ==
    \A c \in Calls :
        (op[c] \in ListOps /\ lastResp[c].err # NoErr) =>
            /\ pc[c] = "ready"
            /\ err[c] # NoErr
            /\ err[c] = handleHTTPError(lastResp[c].resp, lastResp[c].err)
            /\ result[c] = NilResult

\* C2: while the pages of a list accessor come back non-empty and without
\* error its accumulator is the concatenation, in order, of the pages fetched;
\* the empty page that follows ends the call, which returns exactly that
\* concatenation (or, an accumulated object being invalid, the validation
\* error).
C2_AccumulatesAllPages ==
    \A c \in Calls :
        op[c] \in ListOps =>
            /\ pc[c] = "paging" => apiObjs[c] = own[c]
            /\ (lastResp[c].empty /\ lastResp[c].resp = "200" /\ lastResp[c].err = NoErr) =>
                  /\ pc[c] = "ready"
                  /\ \/ err[c] = NoErr /\ result[c] = Some(own[c])
                     \/ err[c] = ValidationErr /\ result[c] = NilResult /\ HasInvalid(own[c])

C2_Witness ==
    \E c \in Calls :
        /\ op[c] \in ListOps /\ pc[c] = "ready"
        /\ lastResp[c].empty /\ lastResp[c].resp = "200" /\ lastResp[c].err = NoErr
        /\ Len(sent[c]) = 2 /\ Len(own[c]) = 2 /\ own[c][1] # own[c][2]
        /\ result[c] = Some(own[c])

\* C3: a call of GetRepoTeams ends by returning, after at least one request
\* to the remote, with the teams or an error.
C3_GetRepoTeamsReturns ==
    \A c \in Calls :
        op[c] = "GetRepoTeams" =>
            /\ pc[c] # "fatal"
            /\ pc[c] = "ready" => Len(sent[c]) >= 1

\* C4: an accessor whose remote call failed returns ErrNotFound when the
\* response carried status 404, and the translator's wrapped error otherwise.
C4_RemoteFailureTranslated ==
    \A c \in Calls :
        (pc[c] = "ready" /\ lastResp[c].err # NoErr) =>
            err[c] = handleHTTPError(lastResp[c].resp, lastResp[c].err)

\* C5: with destructiveActions false, DeleteRepo returns an error of kind
\* ErrDestructiveCallDisallowed and issues no transport call.
C5_DeleteRepoGated ==
    \A c \in Calls :
        (op[c] = "DeleteRepo" /\ ~destructiveActions) =>
            /\ err[c].kind = ErrDestructiveCallDisallowed.kind
            /\ sent[c] = <<>>
            /\ lastResp[c] = NoResp
            /\ result[c] = NilResult

C5_Witness ==
    \E c \in Calls : op[c] = "DeleteRepo" /\ ~destructiveActions /\ pc[c] = "ready"

ValidatedListOps == {"ListOrgs", "ListOrgRepos", "ListUserRepos", "ListKeys"}

\* C6 as stated: if any object on any fetched page is invalid, the list call
\* returns a validation error and a nil sequence; a non-nil sequence is
\* returned only when every accumulated object is valid.
C6_AsStated ==
    \A c \in Calls :
        (op[c] \in ValidatedListOps /\ pc[c] = "ready") =>
            /\ HasInvalid(own[c]) => err[c] = ValidationErr /\ result[c] = NilResult
            /\ ~result[c].isNil => ~HasInvalid(result[c].items)

\* C6 as amended: if any accumulated object is invalid the list call returns a
\* nil sequence, with the validation error unless allPages returned a fetch
\* error, which is then the error returned; a non-nil sequence is returned
\* only when every accumulated object is valid, and is the whole accumulation.
C6_ListAtomic ==
    \A c \in Calls :
        (op[c] \in ValidatedListOps /\ pc[c] = "ready") =>
            /\ HasInvalid(own[c]) =>
                  /\ result[c] = NilResult
                  /\ err[c] = IF Propagated(lastResp[c]) # NoErr
                              THEN Propagated(lastResp[c])
                              ELSE ValidationErr
            /\ ~result[c].isNil =>
                  /\ ~HasInvalid(result[c].items)
                  /\ result[c].items = own[c]
                  /\ err[c] = NoErr

C6_Witness ==
    \E c \in Calls :
        /\ op[c] = "ListOrgs" /\ pc[c] = "ready"
        /\ Len(sent[c]) >= 2
        /\ HasInvalid(own[c])
        /\ \E i \in 1..Len(own[c]) : own[c][i].Name # ""
        /\ err[c] = ValidationErr /\ result[c] = NilResult

\* C7: ListOrgTeamMembers, the teams listed without error: when no team is
\* named teamName it returns nil and ErrNotFound without a members request;
\* otherwise it issues one members request, for the first team of that name
\* in list order, as its last request.
C7_TeamLookup ==
    \A c \in Calls :
        (op[c] = "ListOrgTeamMembers" /\ pc[c] \in {"ready", "members"}) =>
            LET teams == own[c]
                reqs == MembersRequests(c)
                matches == {i \in 1..Len(teams) : teams[i].Name = arg[c]}
                listed == Propagated(lastResp[c]) = NoErr \/ reqs # <<>>
            IN /\ Len(reqs) <= 1
               /\ (matches = {} /\ listed) =>
                     /\ pc[c] = "ready"
                     /\ result[c] = NilResult
                     /\ err[c] = ErrNotFound
                     /\ reqs = <<>>
               /\ (matches # {} /\ listed /\ pc[c] = "ready") =>
                     /\ Len(reqs) = 1
                     /\ sent[c][Len(sent[c])] = reqs[1]
                     /\ \E i \in matches :
                           /\ \A j \in matches : i <= j
                           /\ reqs[1].n = teams[i].ID
               /\ pc[c] = "members" => reqs = <<>> /\ matches # {}

C7_Witness ==
    \E c \in Calls :
        /\ op[c] = "ListOrgTeamMembers" /\ pc[c] = "ready"
        /\ Len(sent[c]) = 2 /\ Len(own[c]) >= 2
        /\ \A i \in 1..Len(own[c]) : own[c][i].Name # arg[c]
        /\ err[c] = ErrNotFound /\ result[c] = NilResult
        /\ MembersRequests(c) = <<>>

\* C8: with two calls interleaved, each call's page cursor is one more than
\* the number of its own fetches, its requests are for pages 1, 2, 3, ... in
\* order, its accumulator holds exactly the items of its own pages, and what
\* it returns is what those pages alone decide.
C8_CallsIndependent ==
    \A c \in Calls :
        /\ op[c] \in ListOps => \A i \in 1..Len(sent[c]) : sent[c][i].n = i
        /\ pc[c] = "paging" => page[c] = Len(sent[c]) + 1 /\ apiObjs[c] = own[c]
        /\ (pc[c] = "ready" /\ op[c] \in ListOps) =>
              LET alone == ListReturn(op[c], own[c], Propagated(lastResp[c]))
              IN result[c] = alone.result /\ err[c] = alone.err

C8_Witness ==
    /\ pc[1] = "paging" /\ pc[2] = "paging"
    /\ op[1] # op[2]
    /\ apiObjs[1] # <<>> /\ apiObjs[2] # <<>>
    /\ page[1] = 2 /\ page[2] = 2

\* C9: CreateRepo issues exactly one request, to the personal endpoint iff
\* orgName is empty and to the organization endpoint iff it is not; a failed
\* request returns the translated error, a successful one the repository if
\* it is valid and the validation error if it is not.
C9_CreateRepoRouting ==
    \A c \in Calls :
        op[c] = "CreateRepo" =>
            /\ Len(sent[c]) = 1
            /\ sent[c][1].ep = "POST /user/repos" <=> arg[c] = ""
            /\ sent[c][1].ep = "POST /orgs/{org}/repos" <=> arg[c] # ""
            /\ IF lastResp[c].err # NoErr
               THEN /\ err[c] = handleHTTPError(lastResp[c].resp, lastResp[c].err)
                    /\ result[c] = NilResult
               ELSE \/ err[c] = NoErr /\ ~result[c].isNil /\ ~HasInvalid(result[c].items)
                    \/ err[c] = ValidationErr /\ result[c] = NilResult

C9_Witness ==
    \E c \in Calls :
        /\ op[c] = "CreateRepo" /\ arg[c] # ""
        /\ err[c] = NoErr /\ ~result[c].isNil
        /\ sent[c] = <<Request("POST /orgs/{org}/repos", 0)>>

\* C10: a page fetch ends the pagination exactly when the page is empty or
\* the fetch failed; otherwise the call stays in its loop and asks for the
\* next page number.
C10_StopsIffEmptyOrError ==
    [][\A c \in Calls :
          (pc[c] = "paging" /\ sent'[c] # sent[c]) =>
              /\ pc'[c] # "paging" <=> (lastResp'[c].empty \/ lastResp'[c].err # NoErr)
              /\ sent'[c][Len(sent'[c])].n = page[c]
              /\ pc'[c] = "paging" => page'[c] = page[c] + 1]_vars

C10_Witness ==
    \E c \in Calls :
        /\ pc[c] = "paging" /\ Len(sent[c]) = 2 /\ page[c] = 3
        /\ ~lastResp[c].empty /\ lastResp[c].err = NoErr

====
